---- MODULE Spec2Model ----
(***************************************************************************)
(* Model of src/main.py: the tree-text parser and structure materializer   *)
(* create_structure, and the two Tkinter callbacks that drive it.          *)
(*                                                                         *)
(* Strings are sequences of one-character strings.  The box-drawing glyphs *)
(* of the pattern are written with ASCII stand-ins:                        *)
(*   BAR  "|"  for U+2502,  TEE "+" for U+251C,                            *)
(*   ELL  "L"  for U+2514,  DASH "-" for U+2500.                           *)
(* A text is the sequence of its lines (what str.splitlines returns).      *)
(***************************************************************************)
EXTENDS Integers, Sequences, FiniteSets, TLC

VARIABLES
    raw,           \* parser runs: the input line
    rec,           \* parser runs: what the loop head made of it
    text_input,    \* the Text widget's content, a sequence of lines
    base_dir_var,  \* the StringVar behind the directory entry
    pc,            \* "idle" in the event loop, "running" inside create_structure
    tree_str,      \* create_structure's argument, as its lines
    base_dir,      \* create_structure's argument
    i,             \* the loop's position in tree_str.splitlines()
    stack,         \* the full path at each depth level
    dirs,          \* the disk: directories, as component sequences
    files,         \* the disk: regular files
    nonempty,      \* the disk: the files of non-zero length
    message,       \* the message box shown last
    created,       \* history: the entries this run has created, in order
    hist,          \* history: how the last two runs ended
    content0       \* history: the files of non-zero length at the start

vars == <<raw, rec, text_input, base_dir_var, pc, tree_str, base_dir, i, stack,
          dirs, files, nonempty, message, created, hist, content0>>

guiVars == <<text_input, base_dir_var, pc, tree_str, base_dir, i, stack,
             dirs, files, nonempty, message, created, hist, content0>>

----------------------------------------------------------------------------
(* Characters of the pattern (src/main.py:23) and of names.                *)

BAR == "|"
TEE == "+"
ELL == "L"
DASH == "-"
SP == " "
TAB == "\t"
SLASH == "/"

\* str.rstrip() / str.strip() / regex \s: the whitespace of the alphabet.
Whitespace == {SP, TAB}

----------------------------------------------------------------------------
(* str methods.                                                            *)

RECURSIVE RStrip(_)
RStrip(s) ==
    IF s # <<>> /\ s[Len(s)] \in Whitespace
    THEN RStrip(SubSeq(s, 1, Len(s) - 1))
    ELSE s

RECURSIVE LStrip(_)
LStrip(s) ==
    IF s # <<>> /\ s[1] \in Whitespace
    THEN LStrip(Tail(s))
    ELSE s

Strip(s) == LStrip(RStrip(s))

\* name.endswith('/')
EndsWithSlash(s) == s # <<>> /\ s[Len(s)] = SLASH

----------------------------------------------------------------------------
(* The compiled pattern, matched the way a backtracking engine matches it: *)
(* indent groups greedily, then the optional marker (tried present before  *)
(* absent), then the lazy name, then the optional comment, then $.         *)

\* (?:│   )|(?:    ) at position p
IsIndentUnit(s, p) ==
    /\ p + 3 <= Len(s)
    /\ s[p] \in {BAR, SP}
    /\ s[p + 1] = SP
    /\ s[p + 2] = SP
    /\ s[p + 3] = SP

\* (?:├── |└── ) at position p
IsMarker(s, p) ==
    /\ p + 3 <= Len(s)
    /\ s[p] \in {TEE, ELL}
    /\ s[p + 1] = DASH
    /\ s[p + 2] = DASH
    /\ s[p + 3] = SP

\* the greedy ( ... )* : the longest run of indent groups from position p
RECURSIVE MaxGroups(_, _)
MaxGroups(s, p) ==
    IF IsIndentUnit(s, p) THEN 1 + MaxGroups(s, p + 4) ELSE 0

\* \s*//.* from position q ('.' matches every character of a line)
CommentAt(s, q) ==
    \E j \in q..(Len(s) - 1) :
        /\ \A k \in q..(j - 1) : s[k] \in Whitespace
        /\ s[j] = SLASH
        /\ s[j + 1] = SLASH

\* (?:\s*//.*)?$ from position q
TailMatches(s, q) == CommentAt(s, q) \/ q = Len(s) + 1

\* .+? from position p: the shortest non-empty name after which the tail
\* matches; the last position of the name
NameEnd(s, p) ==
    CHOOSE e \in p..Len(s) :
        /\ TailMatches(s, e + 1)
        /\ \A e2 \in p..(e - 1) : ~TailMatches(s, e2 + 1)

NoMatch == [ok |-> FALSE, indent |-> <<>>, marker |-> <<>>, name |-> <<>>]

\* One way of splitting the line with k indent groups; a group that did not
\* take part in the match is None, written <<>>.
RECURSIVE TryIndent(_, _)
TryIndent(s, k) ==
    LET p == 4 * k + 1 IN
    IF IsMarker(s, p) /\ p + 4 <= Len(s)
    THEN [ok |-> TRUE, indent |-> SubSeq(s, 1, 4 * k),
          marker |-> SubSeq(s, p, p + 3),
          name |-> SubSeq(s, p + 4, NameEnd(s, p + 4))]
    ELSE IF p <= Len(s)
    THEN [ok |-> TRUE, indent |-> SubSeq(s, 1, 4 * k),
          marker |-> <<>>,
          name |-> SubSeq(s, p, NameEnd(s, p))]
    ELSE IF k = 0 THEN NoMatch
    ELSE TryIndent(s, k - 1)

\* pattern.match(line)
PatternMatch(s) == TryIndent(s, MaxGroups(s, 1))

\* DepthOf with the marker forgotten: depth = indent_level
DepthOfIgnoringMarker(indent, marker) == Len(indent) \div 4

\* indent_level = len(indent) // 4; depth = indent_level + 1 if marker else indent_level
DepthOf(indent, marker) ==
    LET indent_level == Len(indent) \div 4 IN
    IF marker # <<>> THEN indent_level + 1 ELSE indent_level

Skipped == [skipped |-> TRUE, line |-> <<>>, indent |-> <<>>, marker |-> <<>>,
            name |-> <<>>, depth |-> 0]

\* The head of the loop body: rstrip, the two 'continue's, the groups, depth.
ParseLine(l) ==
    LET line == RStrip(l) IN
    IF line = <<>> THEN Skipped
    ELSE LET match == PatternMatch(line) IN
         IF ~match.ok THEN [Skipped EXCEPT !.line = line]
         ELSE [skipped |-> FALSE, line |-> line, indent |-> match.indent,
               marker |-> match.marker, name |-> Strip(match.name),
               depth |-> DepthOf(match.indent, match.marker)]

----------------------------------------------------------------------------
(* Input lines for the parser: concatenations of at most MaxTokens tokens. *)

MaxTokens == 4

IndentBar == <<BAR, SP, SP, SP>>
IndentSp == <<SP, SP, SP, SP>>
Branch == <<TEE, DASH, DASH, SP>>
Last == <<ELL, DASH, DASH, SP>>
Comment == <<SLASH, SLASH>>

Tokens == {IndentBar, IndentSp, Branch, Last, Comment,
           <<"a">>, <<SLASH>>, <<SP>>, <<TAB>>, <<BAR>>}

RECURSIVE TokenLines(_)
TokenLines(n) ==
    IF n = 0 THEN {<<>>}
    ELSE LET S == TokenLines(n - 1) IN S \cup {s \o t : s \in S, t \in Tokens}

NoRec == [skipped |-> TRUE, line |-> <<"?">>, indent |-> <<>>, marker |-> <<>>,
          name |-> <<>>, depth |-> 0]

----------------------------------------------------------------------------
(* os.path on POSIX, and the disk.  A path is a string; the disk is keyed  *)
(* by the sequence of the path's non-empty components (every path of a run *)
(* is absolute: the base directory is, and join keeps it so).              *)

\* os.path.join(a, b)
Join(a, b) ==
    IF b # <<>> /\ b[1] = SLASH THEN b
    ELSE IF a = <<>> \/ a[Len(a)] = SLASH THEN a \o b
    ELSE a \o <<SLASH>> \o b

RECURSIVE RStripSlash(_)
RStripSlash(s) ==
    IF s # <<>> /\ s[Len(s)] = SLASH
    THEN RStripSlash(SubSeq(s, 1, Len(s) - 1))
    ELSE s

\* os.path.dirname(p)
Dirname(p) ==
    LET cut == {k \in 1..Len(p) : p[k] = SLASH}
        head == IF cut = {} THEN <<>>
                ELSE SubSeq(p, 1, CHOOSE k \in cut : \A k2 \in cut : k2 <= k)
    IN  IF RStripSlash(head) = <<>> THEN head ELSE RStripSlash(head)

\* the components the kernel resolves a path into
RECURSIVE Components(_)
Components(p) ==
    IF p = <<>> THEN <<>>
    ELSE IF p[1] = SLASH THEN Components(Tail(p))
    ELSE LET stop == {k \in 1..Len(p) : p[k] = SLASH}
             n == IF stop = {} THEN Len(p)
                  ELSE (CHOOSE k \in stop : \A k2 \in stop : k <= k2) - 1
         IN  <<SubSeq(p, 1, n)>> \o Components(SubSeq(p, n + 1, Len(p)))

Prefixes(c, n) == {SubSeq(c, 1, k) : k \in 1..n}

\* os.path.exists(p)
Exists(d, f, p) == Components(p) \in d \cup f

\* Makedirs without exist_ok: an existing target raises
MakedirsNoExistOk(d, f, p) ==
    LET c == Components(p)
        blocked == {k \in 1..Len(c) : SubSeq(c, 1, k) \in f}
    IN  IF c \in d \cup f \/ blocked # {}
        THEN [err |-> "OSError", dirs |-> d]
        ELSE [err |-> "none", dirs |-> d \cup Prefixes(c, Len(c))]

\* os.makedirs(p, exist_ok=True): the missing directories are made from the
\* top down; a regular file on the way, or at p itself, raises OSError.
Makedirs(d, f, p) ==
    LET c == Components(p)
        blocked == {k \in 1..Len(c) : SubSeq(c, 1, k) \in f}
    IN  IF blocked = {}
        THEN [err |-> "none", dirs |-> d \cup Prefixes(c, Len(c))]
        ELSE LET k0 == CHOOSE k \in blocked : \A k2 \in blocked : k <= k2
             IN  [err |-> "OSError", dirs |-> d \cup Prefixes(c, k0 - 1)]

\* OpenWrite in mode 'a': an existing file keeps its content
OpenAppend(d, f, ne, p) ==
    LET c == Components(p) IN
    IF \/ c = <<>>
       \/ p[Len(p)] = SLASH
       \/ c \in d
       \/ SubSeq(c, 1, Len(c) - 1) \notin d
    THEN [err |-> "OSError", files |-> f, nonempty |-> ne]
    ELSE [err |-> "none", files |-> f \cup {c}, nonempty |-> ne]

\* with open(p, 'w'): creates the file or truncates it; raises OSError when
\* p names a directory or its parent is not a directory.
OpenWrite(d, f, ne, p) ==
    LET c == Components(p) IN
    IF \/ c = <<>>
       \/ p[Len(p)] = SLASH
       \/ c \in d
       \/ SubSeq(c, 1, Len(c) - 1) \notin d
    THEN [err |-> "OSError", files |-> f, nonempty |-> ne]
    ELSE [err |-> "none", files |-> f \cup {c}, nonempty |-> ne \ {c}]

----------------------------------------------------------------------------
(* The body of create_structure's loop after the parse.                    *)

\* Resolve with the parent taken from the top of the stack, stack[-1]
ResolveLast(stk, base, depth, name) ==
    IF depth = 0
    THEN [err |-> "none", path |-> Join(base, name)]
    ELSE IF stk # <<>>
    THEN [err |-> "none", path |-> Join(stk[Len(stk)], name)]
    ELSE [err |-> "IndexError", path |-> <<>>]

\* Resolve falling back to the base directory when the ancestor is missing
ResolveLenient(stk, base, depth, name) ==
    IF depth = 0 \/ depth - 1 >= Len(stk)
    THEN [err |-> "none", path |-> Join(base, name)]
    ELSE [err |-> "none", path |-> Join(stk[depth], name)]

\* lines 50-56: current_path, or IndexError from stack[depth - 1]
Resolve(stk, base, depth, name) ==
    IF depth = 0
    THEN [err |-> "none", path |-> Join(base, name)]
    ELSE IF depth - 1 < Len(stk)
    THEN [err |-> "none", path |-> Join(stk[depth], name)]
    ELSE [err |-> "IndexError", path |-> <<>>]

\* UpdateStack that always appends
UpdateStackAppend(stk, depth, current_path) == Append(stk, current_path)

\* lines 62-65: stack[depth] = current_path, or append
UpdateStack(stk, depth, current_path) ==
    IF Len(stk) > depth
    THEN [stk EXCEPT ![depth + 1] = current_path]
    ELSE Append(stk, current_path)

\* lines 59-73: the directory branch and the file branch
CreateEntry(stk, d, f, ne, depth, name, current_path) ==
    IF EndsWithSlash(name)
    THEN LET mk == Makedirs(d, f, current_path) IN
         [err |-> mk.err, dirs |-> mk.dirs, files |-> f, nonempty |-> ne,
          stack |-> IF mk.err = "none"
                    THEN UpdateStack(stk, depth, current_path) ELSE stk]
    ELSE LET parent_dir == Dirname(current_path)
             mk == IF parent_dir # <<>> /\ ~Exists(d, f, parent_dir)
                   THEN Makedirs(d, f, parent_dir)
                   ELSE [err |-> "none", dirs |-> d]
         IN  IF mk.err # "none"
             THEN [err |-> mk.err, dirs |-> mk.dirs, files |-> f,
                   nonempty |-> ne, stack |-> stk]
             ELSE LET op == OpenWrite(mk.dirs, f, ne, current_path) IN
                  [err |-> op.err, dirs |-> mk.dirs, files |-> op.files,
                   nonempty |-> op.nonempty, stack |-> stk]

\* lines 49-73 for one parsed line r
Outcome(stk, d, f, ne, base, r) ==
    LET res == Resolve(stk, base, r.depth, r.name) IN
    IF res.err # "none"
    THEN [err |-> res.err, dirs |-> d, files |-> f, nonempty |-> ne,
          stack |-> stk, path |-> <<>>]
    ELSE LET e == CreateEntry(stk, d, f, ne, r.depth, r.name, res.path) IN
         [err |-> e.err, dirs |-> e.dirs, files |-> e.files,
          nonempty |-> e.nonempty, stack |-> e.stack, path |-> res.path]

\* Propagates with a try/except around the creation: only the missing
\* ancestor leaves the loop
PropagatesAncestorOnly(err) == err = "IndexError"

\* Nothing inside the loop catches: an exception of any kind leaves
\* create_structure and reaches the except clause of on_create_structure.
Propagates(err) == err # "none"

----------------------------------------------------------------------------
(* The widgets' contents.                                                  *)

Cwd == <<SLASH, "w">>
OtherDir == <<SLASH, "t">>

\* what filedialog.askdirectory() can return ("" when cancelled)
DialogResults == {<<>>, OtherDir}

MaxLines == 4

SampleLines ==
    { <<"a", SLASH>>,
      Branch \o <<"a", SLASH>>,
      Branch \o <<"b", SLASH>>,
      Last \o <<"a", SP>> \o Comment \o <<SP, "c">>,
      IndentSp \o Last \o <<"a">>,
      <<SP, SP>> }

RECURSIVE Texts(_)
Texts(n) ==
    IF n = 0 THEN {<<>>}
    ELSE LET S == Texts(n - 1) IN S \cup {Append(t, l) : t \in S, l \in SampleLines}

\* The disk before the program starts: the root, the two directories the
\* dialog offers, and possibly an earlier tree with a file that has content.
Disks ==
    LET root == Components(<<SLASH>>)
        w == Components(Cwd)
        t == Components(OtherDir)
        wa == Components(Cwd \o <<SLASH, "a">>)
        waa == Components(Cwd \o <<SLASH, "a", SLASH, "a">>)
    IN  { [dirs |-> {root, w, t}, files |-> {}, nonempty |-> {}],
          [dirs |-> {root, w, t, wa}, files |-> {waa}, nonempty |-> {waa}] }

\* str.strip() of a whole text, on its lines: the blank lines at both ends
\* go, the first line loses its leading and the last its trailing whitespace.
RECURSIVE DropBlankHead(_)
DropBlankHead(t) ==
    IF t # <<>> /\ Strip(t[1]) = <<>> THEN DropBlankHead(Tail(t)) ELSE t

RECURSIVE DropBlankTail(_)
DropBlankTail(t) ==
    IF t # <<>> /\ Strip(t[Len(t)]) = <<>>
    THEN DropBlankTail(SubSeq(t, 1, Len(t) - 1))
    ELSE t

TextStrip(t) ==
    LET u == DropBlankTail(DropBlankHead(t)) IN
    IF u = <<>> THEN <<>>
    ELSE LET v == [u EXCEPT ![1] = LStrip(u[1])] IN
         [v EXCEPT ![Len(v)] = RStrip(v[Len(v)])]

NoRun == [ok |-> FALSE, base |-> <<>>, dirs |-> {}]

----------------------------------------------------------------------------
(* The program.                                                            *)

Init ==
    /\ raw = <<>>
    /\ rec = NoRec
    /\ text_input \in Texts(MaxLines)
    /\ base_dir_var = Cwd
    /\ pc = "idle"
    /\ tree_str = <<>>
    /\ base_dir = <<>>
    /\ i = 0
    /\ stack = <<>>
    /\ \E disk \in Disks :
         /\ dirs = disk.dirs
         /\ files = disk.files
         /\ nonempty = disk.nonempty
         /\ content0 = disk.nonempty
    /\ message = "none"
    /\ created = <<>>
    /\ hist = <<NoRun, NoRun>>

\* select_base_directory
SelectBaseDirectory ==
    /\ pc = "idle"
    /\ \E selected_dir \in DialogResults :
         base_dir_var' = IF selected_dir # <<>> THEN selected_dir ELSE base_dir_var
    /\ UNCHANGED <<raw, rec, text_input, pc, tree_str, base_dir, i, stack, dirs,
                   files, nonempty, message, created, hist, content0>>

\* on_create_structure up to the call: the strip, the empty-input error, the
\* default base directory; then create_structure's first lines
OnCreateStructure ==
    /\ pc = "idle"
    /\ LET tree_data == TextStrip(text_input) IN
       IF tree_data = <<>>
       THEN /\ message' = "EmptyInput"
            /\ UNCHANGED <<pc, tree_str, base_dir, i, stack, created>>
       ELSE /\ tree_str' = tree_data
            /\ base_dir' = IF base_dir_var = <<>> THEN Cwd ELSE base_dir_var
            /\ stack' = <<>>
            /\ i' = 1
            /\ created' = <<>>
            /\ message' = "none"
            /\ pc' = "running"
    /\ UNCHANGED <<raw, rec, text_input, base_dir_var, dirs, files, nonempty,
                   hist, content0>>

\* one iteration of the loop over tree_str.splitlines()
ProcessLine ==
    /\ pc = "running"
    /\ i <= Len(tree_str)
    /\ LET r == ParseLine(tree_str[i]) IN
       IF r.skipped
       THEN /\ i' = i + 1
            /\ UNCHANGED <<pc, stack, dirs, files, nonempty, message, created, hist>>
       ELSE LET o == Outcome(stack, dirs, files, nonempty, base_dir, r) IN
            /\ dirs' = o.dirs
            /\ files' = o.files
            /\ nonempty' = o.nonempty
            /\ stack' = o.stack
            /\ IF Propagates(o.err)
               THEN /\ pc' = "idle"
                    /\ message' = o.err
                    /\ hist' = <<hist[2], [ok |-> FALSE, base |-> base_dir,
                                           dirs |-> o.dirs]>>
                    /\ UNCHANGED <<i, created>>
               ELSE /\ i' = i + 1
                    /\ created' = Append(created,
                                         [idx |-> i, depth |-> r.depth,
                                          name |-> r.name, path |-> o.path,
                                          isdir |-> EndsWithSlash(r.name)])
                    /\ UNCHANGED <<pc, message, hist>>
    /\ UNCHANGED <<raw, rec, text_input, base_dir_var, tree_str, base_dir, content0>>

\* the loop is exhausted: return the message, which showinfo displays
Return ==
    /\ pc = "running"
    /\ i > Len(tree_str)
    /\ pc' = "idle"
    /\ message' = "Success"
    /\ hist' = <<hist[2], [ok |-> TRUE, base |-> base_dir, dirs |-> dirs]>>
    /\ UNCHANGED <<raw, rec, text_input, base_dir_var, tree_str, base_dir, i,
                   stack, dirs, files, nonempty, created, content0>>

Next == SelectBaseDirectory \/ OnCreateStructure \/ ProcessLine \/ Return

Spec == Init /\ [][Next]_vars

----------------------------------------------------------------------------
(* The parser alone, on every line of the token alphabet.                  *)

InitParse ==
    /\ raw \in TokenLines(MaxTokens)
    /\ rec = NoRec
    /\ text_input = <<>>
    /\ base_dir_var = Cwd
    /\ pc = "idle"
    /\ tree_str = <<>>
    /\ base_dir = <<>>
    /\ i = 0
    /\ stack = <<>>
    /\ dirs = {<<>>}
    /\ files = {}
    /\ nonempty = {}
    /\ content0 = {}
    /\ message = "none"
    /\ created = <<>>
    /\ hist = <<NoRun, NoRun>>

ParseStep ==
    /\ rec = NoRec
    /\ rec' = ParseLine(raw)
    /\ UNCHANGED <<raw, guiVars>>

NextParse == ParseStep

SpecParse == InitParse /\ [][NextParse]_vars

----------------------------------------------------------------------------
(* Properties of the parser, checked under SpecParse.                      *)

Parsed == rec # NoRec /\ ~rec.skipped

\* the number of complete 4-character indent units a line begins with
LeadingUnits(s) ==
    CHOOSE n \in 0..Len(s) :
        /\ \A j \in 0..(n - 1) : IsIndentUnit(s, 4 * j + 1)
        /\ ~IsIndentUnit(s, 4 * n + 1)

\* C2: the depth of every non-blank line (taken, as the loop takes it, after
\* its trailing whitespace is removed) is the number of complete leading
\* indent units when no connector token follows them, and that number plus
\* one when a connector token follows them.
C2Depth ==
    Parsed =>
        LET s == RStrip(raw)
            n == LeadingUnits(s)
        IN  rec.depth = IF IsMarker(s, 4 * n + 1) THEN n + 1 ELSE n

\* C2 happens: two indent units and a connector give depth 3.
C2Witness ==
    /\ Parsed
    /\ Len(rec.indent) = 8
    /\ rec.marker # <<>>
    /\ rec.depth = 3

Contains(s, sub) ==
    \E k \in 1..(Len(s) - Len(sub) + 1) : SubSeq(s, k, k + Len(sub) - 1) = sub

\* C3: the name of a parsed line never contains the comment token '//'.
C3NoCommentInName == Parsed => ~Contains(rec.name, Comment)

\* a line made of tree-drawing glyphs and whitespace only: it has no name
GlyphsOnly(s) == \A k \in 1..Len(s) : s[k] \in {BAR, TEE, ELL, DASH, SP, TAB}

\* C7: a non-blank line without the tree-line shape (here: one that has no
\* name, only drawing glyphs) produces no record.
C7GarbageSkipped ==
    (rec # NoRec /\ RStrip(raw) # <<>> /\ GlyphsOnly(RStrip(raw))) => rec.skipped

\* C10: the stripped name of every line that is not skipped is non-empty.
C10NameNonEmpty == Parsed => rec.name # <<>>

----------------------------------------------------------------------------
(* Properties of the materializer, checked under Spec.                     *)

Entries == 1..Len(created)

OnDisk(c) ==
    IF c.isdir THEN Components(c.path) \in dirs
    ELSE Components(c.path) \in files

\* the lines of a text that are not blank, parsed
RECURSIVE Records(_)
Records(t) ==
    IF t = <<>> THEN <<>>
    ELSE LET r == ParseLine(t[1]) IN
         IF RStrip(t[1]) = <<>> THEN Records(Tail(t))
         ELSE <<r>> \o Records(Tail(t))

\* well-formed: the first non-blank line is a depth-0 directory line; every
\* later line has depth >= 1 and at most one more than the line before it,
\* and is deeper than the line before it only if that is a directory line
WellFormed(t) ==
    LET rs == Records(t) IN
    /\ rs # <<>>
    /\ rs[1].depth = 0
    /\ EndsWithSlash(rs[1].name)
    /\ \A k \in 2..Len(rs) :
         /\ rs[k].depth >= 1
         /\ rs[k].depth <= rs[k - 1].depth + 1
         /\ rs[k].depth > rs[k - 1].depth => EndsWithSlash(rs[k - 1].name)

\* the nearest entry before entry k whose depth is d
IsNearest(j, k, d) ==
    /\ j < k
    /\ created[j].depth = d
    /\ \A j2 \in (j + 1)..(k - 1) : created[j2].depth # d

\* C1: on a well-formed input no line lacks its ancestor, every entry is
\* created at join(base_dir, name) when its depth is 0 and otherwise at
\* join(P, name), P being the path of the nearest preceding line one level
\* up, and a run that returns has created an entry for every non-blank line.
C1PathOfEntry ==
    WellFormed(tree_str) =>
        /\ message # "IndexError"
        /\ \A k \in Entries :
             /\ OnDisk(created[k])
             /\ IF created[k].depth = 0
                THEN created[k].path = Join(base_dir, created[k].name)
                ELSE \E j \in Entries :
                       /\ IsNearest(j, k, created[k].depth - 1)
                       /\ created[k].path = Join(created[j].path, created[k].name)
        /\ message = "Success" => Len(created) = Len(Records(tree_str))

\* C1 happens: a run has returned after a depth-2 entry was created under
\* the second of two sibling directories.
C1Witness ==
    /\ WellFormed(tree_str)
    /\ message = "Success"
    /\ \E j, k \in Entries :
         /\ created[k].depth = 2
         /\ IsNearest(j, k, 1)
         /\ \E j0 \in 1..(j - 1) :
              created[j0].depth = 1 /\ created[j0].path # created[j].path

\* the line the loop is about to process
AtLine == pc = "running" /\ i <= Len(tree_str)

NoDirAtDepth(d) ==
    ~ \E k \in Entries : created[k].isdir /\ created[k].depth = d

\* C4: a line of depth d >= 1 reached when no directory line of depth d-1
\* was processed earlier in the run (the stack has no entry at index d-1)
\* ends the run with an error at that line; the line creates nothing, no
\* later line is processed and everything on disk stays.
C4MissingAncestor ==
    [][ (AtLine /\ LET r == ParseLine(tree_str[i]) IN
                   /\ ~r.skipped
                   /\ r.depth >= 1
                   /\ (NoDirAtDepth(r.depth - 1) \/ Len(stack) <= r.depth - 1))
        => /\ pc' = "idle"
           /\ message' = "IndexError"
           /\ i' = i
           /\ created' = created
           /\ dirs' = dirs /\ files' = files /\ nonempty' = nonempty ]_vars

\* C4 happens: a run ended on a missing ancestor, and the entries created
\* before it are on disk.
C4Witness ==
    /\ pc = "idle"
    /\ message = "IndexError"
    /\ created # <<>>
    /\ \A k \in Entries : OnDisk(created[k])

\* C5: when a run returned and the next run has the same input and base
\* directory, that run returns too and the directories on disk are the same.
C5Idempotent ==
    (hist[1].ok /\ hist[2].base = hist[1].base)
        => hist[2].ok /\ hist[2].dirs = hist[1].dirs

\* C5 happens: two runs in a row on the same base directory, and the first
\* one made a directory that was not there before.
C5Witness ==
    /\ pc = "idle"
    /\ hist[1].ok
    /\ hist[2].ok
    /\ hist[2].base = hist[1].base
    /\ Components(Join(hist[1].base, <<"a", SLASH, "b">>)) \in hist[1].dirs

\* C6: after a run that returned, the path of every file line is a file of
\* length zero.
C6FilesEmpty ==
    (pc = "idle" /\ message = "Success") =>
        \A k \in Entries :
            ~created[k].isdir =>
                /\ Components(created[k].path) \in files
                /\ Components(created[k].path) \notin nonempty

\* C6 happens: a file that had content before the program started is the
\* path of a file line of a run that returned.
C6Witness ==
    /\ pc = "idle"
    /\ message = "Success"
    /\ \E k \in Entries :
         ~created[k].isdir /\ Components(created[k].path) \in content0

\* C8 as stated: a failed creation does not end the pass, so the only error
\* a run can end with is the missing ancestor.
C8OnlyAncestorFatal == pc = "idle" => message # "OSError"

\* C8 amended: whatever a line raises, a failed creation as well as the
\* missing ancestor, ends the pass at that line: the error is reported, the
\* line and the lines after it are not processed, and what is on disk stays.
C8AnyFailureFatal ==
    [][ (AtLine /\ LET r == ParseLine(tree_str[i]) IN
                   /\ ~r.skipped
                   /\ Outcome(stack, dirs, files, nonempty, base_dir, r).err # "none")
        => /\ pc' = "idle"
           /\ message' = Outcome(stack, dirs, files, nonempty, base_dir,
                                 ParseLine(tree_str[i])).err
           /\ i' = i
           /\ created' = created
           /\ dirs \subseteq dirs' /\ files \subseteq files' ]_vars

\* C8 amended happens: a run ended on a failed creation with lines left
\* after the failing one and earlier entries on disk.
C8Witness ==
    /\ pc = "idle"
    /\ message = "OSError"
    /\ i < Len(tree_str)
    /\ created # <<>>
    /\ \A k \in Entries : OnDisk(created[k])

\* slot d of the stack holds the path of the last directory entry of depth d
StackOK ==
    \A d \in 0..(Len(stack) - 1) :
        \E k \in Entries :
            /\ created[k].isdir
            /\ created[k].depth = d
            /\ created[k].path = stack[d + 1]
            /\ \A k2 \in (k + 1)..Len(created) :
                 ~(created[k2].isdir /\ created[k2].depth = d)

\* what one processed line does to the stack
StackStep ==
    AtLine =>
        LET r == ParseLine(tree_str[i]) IN
        /\ Len(stack') >= Len(stack)
        /\ (r.skipped \/ ~EndsWithSlash(r.name)) => stack' = stack
        /\ (~r.skipped /\ EndsWithSlash(r.name) /\ pc' = "running") =>
             /\ r.depth < Len(stack')
             /\ stack'[r.depth + 1] = created'[Len(created')].path
             /\ \A d \in 1..Len(stack) : d # r.depth + 1 => stack'[d] = stack[d]
             /\ Len(stack') > Len(stack) =>
                  Len(stack) = r.depth /\ Len(stack') = r.depth + 1

\* C9: after every processed prefix, slot d of the stack is the path of the
\* most recently processed directory line of depth d; a directory line of
\* depth d writes index d exactly (appending only when the length is d),
\* a file line leaves the stack as it is, and no entry is removed.
C9PathStack == [][StackOK' /\ StackStep]_vars

\* C9 happens: slot 1 was overwritten by a sibling directory.
C9Witness ==
    /\ Len(stack) = 2
    /\ \E j, k \in Entries :
         /\ j < k
         /\ created[j].isdir /\ created[j].depth = 1
         /\ created[k].isdir /\ created[k].depth = 1
         /\ created[j].path # created[k].path
         /\ stack[2] = created[k].path

====
